---- MODULE Spec2Model ----
(***************************************************************************)
(* Model of the outbound-fetch helpers of the manga aggregator server      *)
(* (fetchWithTimeout and fetchWithRetry, identical in both server files).  *)
(*                                                                         *)
(* A logical call is one invocation of fetchWithRetry.  Each one runs the  *)
(* for-loop of the source: an attempt is a call of fetchWithTimeout, which *)
(* creates an AbortController, arms a timeout timer and hands the request  *)
(* to the transport (node-fetch).  The transport then either resolves with *)
(* a response, rejects with a network error, or stays silent until the     *)
(* timer fires and aborts it.  Steps are the event-loop turns of the       *)
(* source: everything between two awaits is one action.                    *)
(***************************************************************************)
EXTENDS Integers, Sequences, FiniteSets, TLC

\* ---------------------------------------------------------------- bounds
\* Largest explicit retry count a caller passes.
MaxRetriesArg == 3
\* Number of logical calls the model keeps state for.
NumCalls == 2
\* Largest number of manga the upstream lists in one /new-manga answer.
MaxListed == 12
\* Number of genre filter items on the page.
GenreItems == 4

\* ------------------------------------------------------- program constants
\* fetchWithTimeout: timeout = 10000
DefaultTimeout == 10000
\* fetchWithRetry: retries = 3
DefaultRetries == 3
\* setTimeout(resolve, 2000)
BackoffMs == 2000
\* 1000 * 60 * 60 * 24
DayMs == 86400000
\* `< 30`: a manga created less than 30 days ago is new
NewDays == 30
\* /new-manga: `newMangaList.length < 10`, `slice(0, 10)`
MinNewManga == 10
\* `follows > 50000`
SsFollows == 50000
\* `follows > 10000`
HotFollows == 10000

\* ----------------------------------------------------------------- inputs
Calls == 1..NumCalls
\* The calls the single-call specification runs.
Solo == {1}
\* An argument the caller left out, and an argument the caller passed.
Omitted == <<>>
Arg(v) == <<v>>
\* Third argument of fetchWithRetry: omitted, or an integer (0 and negative
\* values included).
RetriesArgs == {Omitted} \cup {Arg(n) : n \in -1..MaxRetriesArg}
\* Timeout durations (ms) a caller may ask for.
TimeoutArgs == {Omitted, Arg(1000), Arg(DefaultTimeout)}
\* Addresses a caller passes.
Urls == {"u1", "u2"}
\* An options object: its headers, its body, and its `signal` property
\* (0: none; n: the signal of the controller of attempt n).
Options(headers, body) == [headers |-> headers, body |-> body, signal |-> 0]
\* Second argument of fetchWithRetry: omitted, headers only (as /proxy-image
\* passes), or headers and a body.
OptionsArgs == {Omitted, Arg(Options("h1", "none")), Arg(Options("h2", "b1"))}
\* `options = {}`: no headers, no body.
EmptyOptions == Options("none", "none")
\* Status codes the upstream answers with.
Statuses == {200, 204, 404, 500}

\* response.ok of node-fetch: status in the range 200..299
Ok(status) == status >= 200 /\ status < 300

\* A JS parameter default: used when the argument is undefined.
Default(arg, dflt) == IF arg = Omitted THEN dflt ELSE arg[1]

VARIABLES
    calls,  \* calls[c]: the state of logical call c (see IdleCall)
    req,    \* the request a route handler is serving (see IdleReq)
    calc,   \* a computation of a handler on a parsed body (see IdleCalc)
    dom     \* the class lists of the front-end page (see InitialPage)

vars == <<calls, req, calc, dom>>

\* A timer handle: no timer pending, or a pending timer with its delay (ms).
NoTimer == <<>>
Timer(delay) == <<delay>>

\* The response object node-fetch resolves with on attempt n.
NoResponse == [attempt |-> 0, status |-> 0]
Response(n, status) == [attempt |-> n, status |-> status]

NoError == [kind |-> "none", attempt |-> 0, status |-> 0]
\* new Error(`HTTP error! Status: ${response.status}`)
HttpError(response) ==
    [kind |-> "HTTPError", attempt |-> response.attempt, status |-> response.status]
\* node-fetch rejection for a network failure
FetchError(n) == [kind |-> "FetchError", attempt |-> n, status |-> 0]
\* node-fetch rejection once the signal is aborted
AbortError(n) == [kind |-> "AbortError", attempt |-> n, status |-> 0]

Event(ev, a, b) == [ev |-> ev, a |-> a, b |-> b]

\* How the transport ends an attempt: it answers with a status, it rejects,
\* or it stays silent until the timeout.
Answered(status) == [how |-> "answered", status |-> status]
Rejected == [how |-> "rejected", status |-> 0]
Silent == [how |-> "silent", status |-> 0]

\* The arguments a call was made with, as the caller passed them.
NoArgs == [url |-> "none", options |-> Omitted, retries |-> Omitted, timeout |-> Omitted]

IdleCall ==
    [ pc          |-> "Idle",
      args        |-> NoArgs,     \* the arguments as passed (never written again)
      url         |-> "none",     \* parameter `url`
      options     |-> EmptyOptions, \* parameter `options` (the caller's object)
      sent        |-> <<>>,       \* what the transport was handed, per attempt
      seen        |-> <<>>,       \* how the transport ended each attempt
      wantTimeout |-> Omitted,    \* the timeout the caller asked for
      retries     |-> 0,          \* parameter `retries`
      i           |-> 0,          \* loop variable
      attempts    |-> 0,          \* transport attempts issued so far
      inflight    |-> {},         \* attempts whose transport operation is running
      timeoutId   |-> NoTimer,    \* timeout timer of the current attempt
      backoffId   |-> NoTimer,    \* backoff timer
      aborted     |-> <<>>,       \* attempts on which controller.abort() ran
      response    |-> NoResponse, \* response received in the current attempt
      error       |-> NoError,    \* error caught in the current iteration
      result      |-> NoResponse, \* response the call returned
      raised      |-> NoError,    \* error the call threw to its caller
      log         |-> <<>> ]      \* attempts, notices and elapsed waits, in order

\* One entry of a handler's fan-out (the async callback of a .map): whether
\* it runs, and where it stands in its chain of fetches.
IdleItem == [st |-> "off", stage |-> 0]

\* Nothing known yet about the manga lookup of /manga/:id.
NoFirst == [pc |-> "none", attempts |-> 0, status |-> 0]

IdleReq ==
    [ route  |-> "none",     \* the route being served
      hpc    |-> "Idle",     \* the await the handler's function stands at
      items  |-> [c \in Calls |-> IdleItem],
      first  |-> NoFirst,    \* how the manga lookup of /manga/:id ended
      data   |-> "unknown",  \* whether its body had a `data` field
      failed |-> FALSE,      \* a fetchWithRetry call of the request ended in failure
      res    |-> <<>>,       \* the responses sent to the client
      transform |-> "none",  \* /proxy-image: how the sharp pipeline ended
      atSend |-> [c \in Calls |-> 0] ]
                             \* each item's stage when res was sent

\* No computation made yet.
IdleCalc == [op |-> "none", in |-> <<>>, out |-> <<>>]

\* The page as loaded: the light button shown, the dark button hidden, no
\* theme class on body, no genre filter item marked.
InitialPage ==
    [ body   |-> {},
      light  |-> {"light-btn"},
      dark   |-> {"dark-btn", "d-none"},
      genres |-> [g \in 1..GenreItems |-> {"list_item"}] ]

Init ==
    /\ calls = [c \in Calls |-> IdleCall]
    /\ req = IdleReq
    /\ calc = IdleCalc
    /\ dom = InitialPage

\* ------------------------------------------------------- fetchWithTimeout
\* fetch(url, { ...options, signal: controller.signal }): a new object with
\* the properties of `options` and the signal of this attempt's controller.
Request(url, options, n) ==
    [url |-> url, init |-> [options EXCEPT !.signal = n]]

\* Variant: one time budget for the whole call, each attempt's timer armed
\* with what the backoff waits have left of it.
StartFetch_SharedBudget(s, timeout) ==
    [s EXCEPT !.pc        = "Attempting",
              !.attempts  = s.attempts + 1,
              !.inflight  = s.inflight \cup {s.attempts + 1},
              !.timeoutId = Timer(timeout - s.i * BackoffMs),
              !.sent      = Append(s.sent, Request(s.url, s.options, s.attempts + 1)),
              !.response  = NoResponse,
              !.error     = NoError,
              !.log       = Append(s.log, Event("attempt", s.attempts + 1, 0))]

\* Variant: the signal is assigned into the caller's options object, and the
\* body is consumed by the first attempt.
StartFetch_MutatesOptions(s, timeout) ==
    [s EXCEPT !.pc        = "Attempting",
              !.attempts  = s.attempts + 1,
              !.inflight  = s.inflight \cup {s.attempts + 1},
              !.timeoutId = Timer(timeout),
              !.options   = [s.options EXCEPT !.signal = s.attempts + 1, !.body = "none"],
              !.sent      = Append(s.sent, Request(s.url, s.options, s.attempts + 1)),
              !.response  = NoResponse,
              !.error     = NoError,
              !.log       = Append(s.log, Event("attempt", s.attempts + 1, 0))]

\* fetchWithTimeout up to its await: a fresh controller, the timeout timer
\* armed with `timeout`, the request handed to the transport.
StartFetch(s, timeout) ==
    [s EXCEPT !.pc        = "Attempting",
              !.attempts  = s.attempts + 1,
              !.inflight  = s.inflight \cup {s.attempts + 1},
              !.timeoutId = Timer(timeout),
              !.sent      = Append(s.sent, Request(s.url, s.options, s.attempts + 1)),
              !.response  = NoResponse,
              !.error     = NoError,
              !.log       = Append(s.log, Event("attempt", s.attempts + 1, 0))]

\* The timeout fetchWithTimeout runs with when fetchWithRetry calls it:
\* fetchWithRetry passes (url, options) only, so `timeout` takes its default
\* whatever the caller of fetchWithRetry asked for.
AttemptTimeout(wantTimeout) == Default(Omitted, DefaultTimeout)

\* ---------------------------------------------------------- fetchWithRetry
\* The loop head `i < retries`: the next attempt, or the end of the function
\* body, which returns undefined.
LoopHead(s) ==
    IF s.i < s.retries
    THEN StartFetch(s, AttemptTimeout(s.wantTimeout))
    ELSE [s EXCEPT !.pc = "ReturnedUndefined"]

\* Variant: the default of `retries` is 5.
Bind_FiveRetries(url, optionsArg, retriesArg, timeoutArg) ==
    [IdleCall EXCEPT !.args        = [url |-> url, options |-> optionsArg,
                                      retries |-> retriesArg, timeout |-> timeoutArg],
                     !.url         = url,
                     !.options     = Default(optionsArg, EmptyOptions),
                     !.retries     = Default(retriesArg, 5),
                     !.wantTimeout = timeoutArg,
                     !.i           = 0]

\* The frame of a fresh fetchWithRetry call: parameters bound, i = 0.
Bind(url, optionsArg, retriesArg, timeoutArg) ==
    [IdleCall EXCEPT !.args        = [url |-> url, options |-> optionsArg,
                                      retries |-> retriesArg, timeout |-> timeoutArg],
                     !.url         = url,
                     !.options     = Default(optionsArg, EmptyOptions),
                     !.retries     = Default(retriesArg, DefaultRetries),
                     !.wantTimeout = timeoutArg,
                     !.i           = 0]

\* fetchWithRetry is called: parameters bound, loop entered.
Invoke(c, url, optionsArg, retriesArg, timeoutArg) ==
    /\ calls[c].pc = "Idle"
    /\ calls' = [calls EXCEPT ![c] =
          LoopHead(Bind(url, optionsArg, retriesArg, timeoutArg))]

\* Variant: the `return response` is missing, the loop goes on.
OnResponse_NoReturn(s, r) ==
    IF ~Ok(r.status)
    THEN [s EXCEPT !.pc = "AttemptFailed", !.error = HttpError(r)]
    ELSE LoopHead([s EXCEPT !.i = s.i + 1])

\* Variant: the test of response.ok is inverted.
OnResponse_Inverted(s, r) ==
    IF Ok(r.status)
    THEN [s EXCEPT !.pc = "AttemptFailed", !.error = HttpError(r)]
    ELSE [s EXCEPT !.pc = "Succeeded", !.result = r]

\* What fetchWithRetry does with the response fetchWithTimeout returned.
OnResponse(s, r) ==
    IF ~Ok(r.status)
    THEN [s EXCEPT !.pc = "AttemptFailed", !.error = HttpError(r)]
    ELSE [s EXCEPT !.pc = "Succeeded", !.result = r]

\* Variant: clearTimeout is missing on the return path.
TransportResponds_KeepsTimer(c, status) ==
    LET s == calls[c]
        r == Response(s.attempts, status)
    IN /\ s.pc = "Attempting"
       /\ s.attempts \in s.inflight
       /\ calls' = [calls EXCEPT ![c] =
             OnResponse([s EXCEPT !.inflight  = s.inflight \ {s.attempts},
                                  !.seen      = Append(s.seen, Answered(status)),
                                  !.response  = r], r)]

\* The transport resolves the attempt with a response: fetchWithTimeout
\* clears the timer and returns it; fetchWithRetry tests response.ok.
TransportResponds(c, status) ==
    LET s == calls[c]
        r == Response(s.attempts, status)
    IN /\ s.pc = "Attempting"
       /\ s.attempts \in s.inflight
       /\ calls' = [calls EXCEPT ![c] =
             OnResponse([s EXCEPT !.inflight  = s.inflight \ {s.attempts},
                                  !.timeoutId = NoTimer,
                                  !.seen      = Append(s.seen, Answered(status)),
                                  !.response  = r], r)]

\* The transport rejects the attempt (connection refused, DNS, reset):
\* fetchWithTimeout clears the timer and rethrows.
TransportFails(c) ==
    LET s == calls[c]
    IN /\ s.pc = "Attempting"
       /\ s.attempts \in s.inflight
       /\ calls' = [calls EXCEPT ![c] =
             [s EXCEPT !.inflight  = s.inflight \ {s.attempts},
                       !.timeoutId = NoTimer,
                       !.seen      = Append(s.seen, Rejected),
                       !.pc        = "AttemptFailed",
                       !.error     = FetchError(s.attempts)]]

\* Variant: the timeout only stops waiting (a race against a timer) and
\* leaves the transport operation running.
OnTimeout_StopWaiting(s) ==
    [s EXCEPT !.error = AbortError(s.attempts)]

\* The timer callback `() => controller.abort()` and what it causes: the
\* signal aborts the request, node-fetch tears the operation down and
\* rejects with an AbortError.
OnTimeout(s) ==
    [s EXCEPT !.aborted  = Append(s.aborted, s.attempts),
              !.inflight = s.inflight \ {s.attempts},
              !.error    = AbortError(s.attempts)]

\* Variant: one module-level controller shared by all calls, so a timeout
\* aborts every attempt in flight.
TimeoutFires_SharedController(c) ==
    /\ calls[c].pc = "Attempting"
    /\ calls[c].timeoutId # NoTimer
    /\ calls' = [d \in Calls |->
          IF calls[d].pc = "Attempting"
          THEN [OnTimeout(calls[d]) EXCEPT !.timeoutId = NoTimer,
                                           !.seen      = Append(calls[d].seen, Silent),
                                           !.pc        = "AttemptFailed"]
          ELSE calls[d]]

\* The timeout timer fires before the transport answered; the catch block of
\* fetchWithTimeout clears the (spent) timer and rethrows.
TimeoutFires(c) ==
    LET s == calls[c]
    IN /\ s.pc = "Attempting"
       /\ s.timeoutId # NoTimer
       /\ calls' = [calls EXCEPT ![c] =
             [OnTimeout(s) EXCEPT !.timeoutId = NoTimer,
                                  !.seen      = Append(s.seen, Silent),
                                  !.pc        = "AttemptFailed"]]

\* Variant: the bound tested one iteration late.
IsLastTry_Late(i, retries, error) == i = retries
\* Variant: the bound tested one iteration early.
IsLastTry_Early(i, retries, error) == i = retries - 2
\* Variant: client errors (4xx) are not retried.
IsLastTry_Or4xx(i, retries, error) ==
    \/ i = retries - 1
    \/ error.kind = "HTTPError" /\ error.status >= 400 /\ error.status < 500

\* The test of the catch block: rethrow on the last iteration.
IsLastTry(i, retries, error) == i = retries - 1

\* Variant: the catch block retries at once, without the backoff wait.
Catch_NoBackoff(c) ==
    LET s == calls[c]
    IN /\ s.pc = "AttemptFailed"
       /\ calls' = [calls EXCEPT ![c] =
             IF IsLastTry(s.i, s.retries, s.error)
             THEN [s EXCEPT !.pc = "Failed", !.raised = s.error]
             ELSE LoopHead([s EXCEPT !.i = s.i + 1,
                                     !.log = Append(s.log, Event("notice", s.i + 1, s.retries))])]

\* Attempts made by the calls of a set, summed.
RECURSIVE TotalAttempts(_)
TotalAttempts(cs) ==
    IF cs = {} THEN 0
    ELSE LET c == CHOOSE x \in cs : TRUE
         IN calls[c].attempts + TotalAttempts(cs \ {c})

\* Variant: the attempts are counted in one module-level counter shared by
\* all calls.
Catch_SharedCounter(c) ==
    LET s == calls[c]
    IN /\ s.pc = "AttemptFailed"
       /\ calls' = [calls EXCEPT ![c] =
             IF IsLastTry(TotalAttempts(Calls) - 1, s.retries, s.error)
                \/ TotalAttempts(Calls) > s.retries
             THEN [s EXCEPT !.pc = "Failed", !.raised = s.error]
             ELSE [s EXCEPT !.pc = "Backoff",
                            !.backoffId = Timer(BackoffMs),
                            !.log = Append(s.log, Event("notice", s.i + 1, s.retries))]]

\* Variant: the notice is logged before the test for the last iteration.
Catch_NoticeFirst(c) ==
    LET s == calls[c]
        n == [s EXCEPT !.log = Append(s.log, Event("notice", s.i + 1, s.retries))]
    IN /\ s.pc = "AttemptFailed"
       /\ calls' = [calls EXCEPT ![c] =
             IF IsLastTry(s.i, s.retries, s.error)
             THEN [n EXCEPT !.pc = "Failed", !.raised = s.error]
             ELSE [n EXCEPT !.pc = "Backoff", !.backoffId = Timer(BackoffMs)]]

\* Variant: the backoff wait comes before the test for the last iteration.
Catch_WaitsBeforeRaise(c) ==
    LET s == calls[c]
    IN /\ s.pc = "AttemptFailed"
       /\ calls' = [calls EXCEPT ![c] =
             IF IsLastTry(s.i, s.retries, s.error)
             THEN [s EXCEPT !.pc = "Failed", !.raised = s.error,
                            !.log = Append(s.log, Event("wait", BackoffMs, 0))]
             ELSE [s EXCEPT !.pc = "Backoff",
                            !.backoffId = Timer(BackoffMs),
                            !.log = Append(s.log, Event("notice", s.i + 1, s.retries))]]

\* The catch block of fetchWithRetry: rethrow, or notice and backoff.
Catch(c) ==
    LET s == calls[c]
    IN /\ s.pc = "AttemptFailed"
       /\ calls' = [calls EXCEPT ![c] =
             IF IsLastTry(s.i, s.retries, s.error)
             THEN [s EXCEPT !.pc = "Failed", !.raised = s.error]
             ELSE [s EXCEPT !.pc = "Backoff",
                            !.backoffId = Timer(BackoffMs),
                            !.log = Append(s.log, Event("notice", s.i + 1, s.retries))]]

\* The backoff timer fires: the await resumes, i++ and the loop test.
BackoffElapsed(c) ==
    LET s == calls[c]
    IN /\ s.pc = "Backoff"
       /\ s.backoffId # NoTimer
       /\ calls' = [calls EXCEPT ![c] =
             LoopHead([s EXCEPT !.backoffId = NoTimer,
                                !.i   = s.i + 1,
                                !.log = Append(s.log, Event("wait", s.backoffId[1], 0))])]

Step(c) ==
    \/ \E u \in Urls, o \in OptionsArgs, r \in RetriesArgs, t \in TimeoutArgs :
          Invoke(c, u, o, r, t) /\ UNCHANGED <<req, calc, dom>>
    \/ \E status \in Statuses : TransportResponds(c, status) /\ UNCHANGED <<req, calc, dom>>
    \/ TransportFails(c) /\ UNCHANGED <<req, calc, dom>>
    \/ TimeoutFires(c) /\ UNCHANGED <<req, calc, dom>>
    \/ Catch(c) /\ UNCHANGED <<req, calc, dom>>
    \/ BackoffElapsed(c) /\ UNCHANGED <<req, calc, dom>>

Next == \E c \in Solo : Step(c)

Spec == Init /\ [][Next]_vars

\* Timers fire and resumed continuations run; the transport owes nothing.
Fairness ==
    \A c \in Solo : /\ WF_vars(TimeoutFires(c) /\ UNCHANGED <<req, calc, dom>>)
                    /\ WF_vars(Catch(c) /\ UNCHANGED <<req, calc, dom>>)
                    /\ WF_vars(BackoffElapsed(c) /\ UNCHANGED <<req, calc, dom>>)

FairSpec == Spec /\ Fairness

\* ------------------------------------------------------ concurrent calls
\* Several callers at once: every call of Calls may be started at any time
\* and the event loop interleaves their steps.
ConcRetriesArgs == {Arg(0), Arg(1), Arg(2)}
ConcStatuses == {200, 500}

ConcStep(c) ==
    \/ \E r \in ConcRetriesArgs : Invoke(c, "u1", Omitted, r, Omitted) /\ UNCHANGED <<req, calc, dom>>
    \/ \E status \in ConcStatuses : TransportResponds(c, status) /\ UNCHANGED <<req, calc, dom>>
    \/ TransportFails(c) /\ UNCHANGED <<req, calc, dom>>
    \/ TimeoutFires(c) /\ UNCHANGED <<req, calc, dom>>
    \/ Catch(c) /\ UNCHANGED <<req, calc, dom>>
    \/ BackoffElapsed(c) /\ UNCHANGED <<req, calc, dom>>

ConcNext == \E c \in Calls : ConcStep(c)

ConcSpec == Init /\ [][ConcNext]_vars

\* ---------------------------------------------------------- route handlers
\* A request is served by one async handler function.  It awaits a first
\* fetch; the list handlers then start one async callback per listed manga
\* (Promise.all over .map), each a chain of fetches; /manga/:id goes on with a
\* chain of its own and fans out over the authors.  Call c of `calls` is the
\* fetch the c-th callback awaits; call 1 also serves the handler's own
\* sequential fetches.  Bodies are taken to parse; what they hold (a `data`
\* field, the relationships of a manga, the number of entries) is input.
ListRoutes == {"/latest-manga", "/new-manga", "/top-weekly"}
\* /manga/:id as written in part_000 and in part_002
Details000 == "/manga/:id"
Details002 == "/manga/:id (part_002)"
DetailRoutes == {Details000, Details002}
Routes == ListRoutes \cup DetailRoutes

\* The fetches of one callback, in source order.
ItemStages(route) ==
    IF route = "/top-weekly" THEN <<"cover", "chapters">>
    ELSE IF route \in DetailRoutes THEN <<"author">>
    ELSE <<"cover", "author", "chapters", "stats">>

\* Fetched only if the manga has the relationship (`if (coverRel)`,
\* `if (authorRel)`).
Optional(route, stage) == route \in ListRoutes /\ stage \in {"cover", "author"}

\* Variant: no callback catches the failure of a fetch itself.
Guarded_Nowhere(route, stage) == FALSE

\* Variant: every callback catches the failure of each of its fetches.
Guarded_Everywhere(route, stage) == TRUE

\* The fetch sits in a try/catch of its own inside the callback.
Guarded(route, stage) == route \in {"/new-manga", "/top-weekly"}

\* Statuses the upstream answers a handler's fetches with.
HandlerStatuses == {200, 404}

\* The stages a callback standing at stage k may run next (one past the last:
\* it returns), skipping optional ones.
NextStageChoices(route, k) ==
    {j \in (k + 1)..(Len(ItemStages(route)) + 1) :
        \A m \in (k + 1)..(j - 1) : Optional(route, ItemStages(route)[m])}

FirstChoices(route) == NextStageChoices(route, 0) \cap (1..Len(ItemStages(route)))

\* The calls and the request after a handler step.
W(cs, r) == [calls |-> cs, req |-> r]

\* fetchWithRetry(url): a fresh call with the default options and retries.
StartCall(url) == LoopHead(Bind(url, Omitted, Omitted, Omitted))

\* `await fetchWithRetry(url)` in the handler function.
Await(w, c, url, hpc) ==
    W([w.calls EXCEPT ![c] = StartCall(url)], [w.req EXCEPT !.hpc = hpc])

\* The awaited fetchWithRetry call has returned or thrown.
Settled(c) == calls[c].pc \in {"Succeeded", "Failed"}

\* How a settled call ended.
Snapshot(s) ==
    [pc |-> s.pc, attempts |-> s.attempts,
     status |-> IF s.pc = "Succeeded" THEN s.result.status ELSE s.raised.status]

\* The request with the failure of call c, if it failed, noted.
Noted(r, c) == [r EXCEPT !.failed = @ \/ calls[c].pc = "Failed"]

\* res.json(...) / res.status(...).json(...): the response goes out and the
\* handler function ends.  `partial` tells that a fetch of the request had
\* failed by then.
Send(w, status, body) ==
    W(w.calls,
      [w.req EXCEPT !.res    = Append(@, [status |-> status, body |-> body,
                                          partial |-> w.req.failed]),
                    !.hpc    = "Done",
                    !.atSend = [c \in Calls |-> w.req.items[c].stage]])

\* A request arrives: the handler awaits its first fetch.
Receive(route) ==
    /\ req.hpc = "Idle"
    /\ LET w == Await(W(calls, [req EXCEPT !.route = route]), 1, "first",
                      IF route \in ListRoutes THEN "Listing" ELSE "Manga")
       IN calls' = w.calls /\ req' = w.req

\* The listing fetch of a list handler settles: 500 from the outer catch if it
\* failed (or if the body has no `data` to map over; /top-weekly answers 404
\* then); otherwise the n callbacks start and run to their first await.
ListingResumes(hasData, n, firsts) ==
    /\ req.hpc = "Listing"
    /\ Settled(1)
    /\ LET route == req.route
           r1 == [Noted(req, 1) EXCEPT
                     !.data  = IF calls[1].pc = "Failed" THEN "unknown"
                               ELSE IF hasData THEN "yes" ELSE "no"]
           w == W(calls, r1)
           out == IF calls[1].pc = "Failed" THEN Send(w, 500, "error")
                  ELSE IF ~hasData
                       THEN Send(w, IF route = "/top-weekly" THEN 404 ELSE 500, "error")
                  ELSE IF n = 0 THEN Send(w, 200, "list")
                  ELSE W([c \in Calls |->
                             IF c <= n THEN StartCall(ItemStages(route)[firsts[c]])
                                       ELSE calls[c]],
                         [r1 EXCEPT !.hpc = "Items",
                                    !.items = [c \in Calls |->
                                        IF c <= n THEN [st |-> "run", stage |-> firsts[c]]
                                                  ELSE IdleItem]])
       IN calls' = out.calls /\ req' = out.req

\* /manga/:id, the statistics fetch: part_000 calls fetch directly (one try,
\* no timer, any status resolves); part_002 calls fetchWithRetry.
RawFetch(url) ==
    [IdleCall EXCEPT !.pc = "RawAttempting", !.url = url, !.attempts = 1,
                     !.inflight = {1},
                     !.sent = <<[url |-> url, init |-> EmptyOptions]>>]

ToStats(w) ==
    IF w.req.route = Details000
    THEN W([w.calls EXCEPT ![1] = RawFetch("stats")], [w.req EXCEPT !.hpc = "Stats"])
    ELSE Await(w, 1, "stats", "Stats")

\* /manga/:id, Promise.all over the n author and artist relationships.
ToAuthors(w, n) ==
    IF n = 0 THEN ToStats(w)
    ELSE W([c \in Calls |-> IF c <= n THEN StartCall("author") ELSE w.calls[c]],
           [w.req EXCEPT !.hpc = "Authors",
                         !.items = [c \in Calls |->
                             IF c <= n THEN [st |-> "run", stage |-> 1] ELSE IdleItem]])

\* /manga/:id after mangaResponse.json(): 404 without `data`, else the cover
\* fetch (if there is a cover relationship) or the authors.
AfterParse(w, hasData, hasCover, n) ==
    LET w1 == W(w.calls, [w.req EXCEPT !.data = IF hasData THEN "yes" ELSE "no"])
    IN IF ~hasData THEN Send(w1, 404, "not found")
       ELSE IF hasCover THEN Await(w1, 1, "cover", "Cover")
       ELSE ToAuthors(w1, n)

\* Variant: the rejection of one callback cancels the fetches of the others.
ItemResumes_CancelSiblings(k, j) ==
    /\ req.items[k].st = "run"
    /\ Settled(k)
    /\ j \in NextStageChoices(req.route, req.items[k].stage)
    /\ LET route == req.route
           stages == ItemStages(route)
           name == stages[req.items[k].stage]
           r1 == Noted(req, k)
           rejected == [r1 EXCEPT !.items[k].st = "rejected"]
           done == [r1 EXCEPT !.items[k] = [st |-> "done", stage |-> j]]
           allDone == \A c \in Calls : done.items[c].st \in {"off", "done"}
           cancelled == [c \in Calls |->
                            IF c # k /\ req.items[c].st = "run" THEN IdleCall
                                                                ELSE calls[c]]
           out == IF calls[k].pc = "Failed" /\ ~Guarded(route, name)
                  THEN IF r1.hpc \in {"Items", "Authors"}
                       THEN Send(W(cancelled, rejected), 500, "error")
                       ELSE W(calls, rejected)
                  ELSE IF j <= Len(stages)
                       THEN W([calls EXCEPT ![k] = StartCall(stages[j])],
                              [r1 EXCEPT !.items[k].stage = j])
                  ELSE IF allDone /\ r1.hpc = "Items" THEN Send(W(calls, done), 200, "list")
                  ELSE IF allDone /\ r1.hpc = "Authors" THEN ToStats(W(calls, done))
                  ELSE W(calls, done)
       IN calls' = out.calls /\ req' = out.req

\* The fetch a callback awaits settles.  A failure outside a try/catch
\* rejects the callback, and the first rejection rejects Promise.all: the
\* outer catch answers 500.  Otherwise the callback goes on to stage j, or
\* returns; when the last callback has returned the handler goes on.
ItemResumes(k, j) ==
    /\ req.items[k].st = "run"
    /\ Settled(k)
    /\ j \in NextStageChoices(req.route, req.items[k].stage)
    /\ LET route == req.route
           stages == ItemStages(route)
           name == stages[req.items[k].stage]
           r1 == Noted(req, k)
           rejected == [r1 EXCEPT !.items[k].st = "rejected"]
           done == [r1 EXCEPT !.items[k] = [st |-> "done", stage |-> j]]
           allDone == \A c \in Calls : done.items[c].st \in {"off", "done"}
           out == IF calls[k].pc = "Failed" /\ ~Guarded(route, name)
                  THEN IF r1.hpc \in {"Items", "Authors"}
                       THEN Send(W(calls, rejected), 500, "error")
                       ELSE W(calls, rejected)
                  ELSE IF j <= Len(stages)
                       THEN W([calls EXCEPT ![k] = StartCall(stages[j])],
                              [r1 EXCEPT !.items[k].stage = j])
                  ELSE IF allDone /\ r1.hpc = "Items" THEN Send(W(calls, done), 200, "list")
                  ELSE IF allDone /\ r1.hpc = "Authors" THEN ToStats(W(calls, done))
                  ELSE W(calls, done)
       IN calls' = out.calls /\ req' = out.req

\* Variant: an upstream 404 for the manga is passed on as "Manga not found".
LookupResumes_Maps404(hasData, hasCover, n) ==
    /\ req.hpc = "Manga"
    /\ Settled(1)
    /\ LET w == W(calls, [Noted(req, 1) EXCEPT !.first = Snapshot(calls[1])])
           out == IF calls[1].pc = "Failed"
                  THEN IF calls[1].raised.status = 404 THEN Send(w, 404, "not found")
                       ELSE Send(w, 500, "error")
                  ELSE IF req.route = Details000 THEN Await(w, 1, "feed", "Feed")
                  ELSE AfterParse(w, hasData, hasCover, n)
       IN calls' = out.calls /\ req' = out.req

\* /manga/:id, the manga lookup settles: 500 from the outer catch if it
\* failed; part_000 then fetches the feed before it reads the body.
LookupResumes(hasData, hasCover, n) ==
    /\ req.hpc = "Manga"
    /\ Settled(1)
    /\ LET w == W(calls, [Noted(req, 1) EXCEPT !.first = Snapshot(calls[1])])
           out == IF calls[1].pc = "Failed" THEN Send(w, 500, "error")
                  ELSE IF req.route = Details000 THEN Await(w, 1, "feed", "Feed")
                  ELSE AfterParse(w, hasData, hasCover, n)
       IN calls' = out.calls /\ req' = out.req

\* part_000: the feed fetch settles.
FeedResumes(hasData, hasCover, n) ==
    /\ req.hpc = "Feed"
    /\ Settled(1)
    /\ LET w == W(calls, Noted(req, 1))
           out == IF calls[1].pc = "Failed" THEN Send(w, 500, "error")
                  ELSE AfterParse(w, hasData, hasCover, n)
       IN calls' = out.calls /\ req' = out.req

\* /manga/:id, the cover fetch settles.
CoverResumes(n) ==
    /\ req.hpc = "Cover"
    /\ Settled(1)
    /\ LET w == W(calls, Noted(req, 1))
           out == IF calls[1].pc = "Failed" THEN Send(w, 500, "error")
                  ELSE ToAuthors(w, n)
       IN calls' = out.calls /\ req' = out.req

\* /manga/:id, the statistics fetch settles.  part_000: a rejected fetch goes
\* to the outer catch, any response goes on to the chapters.  part_002: the
\* try/catch around the fetch swallows a failure, and the statement after it
\* reads `statsData`, a const of the try block: a ReferenceError, caught by
\* the outer catch.
StatsResumes ==
    /\ req.hpc = "Stats"
    /\ IF req.route = Details000
       THEN calls[1].pc \in {"RawResolved", "RawRejected"}
       ELSE Settled(1)
    /\ LET w == W(calls, Noted(req, 1))
           out == IF req.route = Details000
                  THEN IF calls[1].pc = "RawRejected" THEN Send(w, 500, "error")
                       ELSE Await(w, 1, "chapters", "Chapters")
                  ELSE Send(w, 500, "error")
       IN calls' = out.calls /\ req' = out.req

\* /manga/:id, the chapters fetch settles: the details go out.
ChaptersResumes ==
    /\ req.hpc = "Chapters"
    /\ Settled(1)
    /\ LET w == W(calls, Noted(req, 1))
           out == IF calls[1].pc = "Failed" THEN Send(w, 500, "error")
                  ELSE Send(w, 200, "details")
       IN calls' = out.calls /\ req' = out.req

\* The transport answers a direct fetch: it resolves whatever the status.
RawResponds(c, status) ==
    /\ calls[c].pc = "RawAttempting"
    /\ calls' = [calls EXCEPT ![c] =
          [calls[c] EXCEPT !.pc = "RawResolved", !.inflight = {},
                           !.seen = Append(@, Answered(status)),
                           !.response = Response(1, status),
                           !.result = Response(1, status)]]

\* The transport rejects a direct fetch.
RawFails(c) ==
    /\ calls[c].pc = "RawAttempting"
    /\ calls' = [calls EXCEPT ![c] =
          [calls[c] EXCEPT !.pc = "RawRejected", !.inflight = {},
                           !.seen = Append(@, Rejected),
                           !.error = FetchError(1),
                           !.raised = FetchError(1)]]

\* /proxy-image
ProxyRoute == "/proxy-image"
\* The options /proxy-image passes: Referer and User-Agent headers.
ProxyOptions == Options("h1", "none")

\* A request for an image arrives: the handler awaits the image fetch.
ReceiveImage ==
    /\ req.hpc = "Idle"
    /\ calls' = [calls EXCEPT ![1] =
          LoopHead(Bind("image", Arg(ProxyOptions), Omitted, Omitted))]
    /\ req' = [req EXCEPT !.route = ProxyRoute, !.hpc = "Image"]

\* The image fetch settles: 500 from the catch if it failed (or if the
\* response is not ok); otherwise the handler awaits response.buffer() and
\* the sharp pipeline.
ImageResumes ==
    /\ req.hpc = "Image"
    /\ Settled(1)
    /\ LET w == W(calls, Noted(req, 1))
           out == IF calls[1].pc = "Failed" THEN Send(w, 500, "error")
                  ELSE IF ~Ok(calls[1].result.status) THEN Send(w, 500, "error")
                  ELSE W(calls, [req EXCEPT !.hpc = "Transform"])
       IN calls' = out.calls /\ req' = out.req

\* Variant: a failed transform fetches the image again.
TransformResumes_Retries(ok) ==
    /\ req.hpc = "Transform"
    /\ LET done == [req EXCEPT !.transform = IF ok THEN "ok" ELSE "failed"]
           out == IF ok THEN Send(W(calls, done), 200, "image/jpeg")
                  ELSE W([calls EXCEPT ![1] =
                            LoopHead(Bind("image", Arg(ProxyOptions), Omitted, Omitted))],
                         [done EXCEPT !.hpc = "Image"])
       IN calls' = out.calls /\ req' = out.req

\* Decoding, resizing and re-encoding end: the image goes out with
\* Content-Type image/jpeg, or the catch answers 500.
TransformResumes(ok) ==
    /\ req.hpc = "Transform"
    /\ LET done == [req EXCEPT !.transform = IF ok THEN "ok" ELSE "failed"]
           out == IF ok THEN Send(W(calls, done), 200, "image/jpeg")
                  ELSE Send(W(calls, done), 500, "error")
       IN calls' = out.calls /\ req' = out.req

\* The steps of the fetches a handler started.
HandlerCallStep(c) ==
    \/ \E status \in HandlerStatuses : TransportResponds(c, status) /\ UNCHANGED <<req, calc, dom>>
    \/ Catch(c) /\ UNCHANGED <<req, calc, dom>>
    \/ BackoffElapsed(c) /\ UNCHANGED <<req, calc, dom>>
    \/ \E status \in HandlerStatuses : RawResponds(c, status) /\ UNCHANGED <<req, calc, dom>>
    \/ RawFails(c) /\ UNCHANGED <<req, calc, dom>>

HandlerStep ==
    \/ \E route \in Routes : Receive(route) /\ UNCHANGED <<calc, dom>>
    \/ \E hasData \in BOOLEAN, n \in 0..NumCalls :
          \E firsts \in [1..n -> FirstChoices(req.route)] :
             ListingResumes(hasData, n, firsts) /\ UNCHANGED <<calc, dom>>
    \/ \E k \in Calls, j \in 1..5 : ItemResumes(k, j) /\ UNCHANGED <<calc, dom>>
    \/ \E hasData \in BOOLEAN, hasCover \in BOOLEAN, n \in 0..NumCalls :
          LookupResumes(hasData, hasCover, n) /\ UNCHANGED <<calc, dom>>
    \/ \E hasData \in BOOLEAN, hasCover \in BOOLEAN, n \in 0..NumCalls :
          FeedResumes(hasData, hasCover, n) /\ UNCHANGED <<calc, dom>>
    \/ \E n \in 0..NumCalls : CoverResumes(n) /\ UNCHANGED <<calc, dom>>
    \/ StatsResumes /\ UNCHANGED <<calc, dom>>
    \/ ChaptersResumes /\ UNCHANGED <<calc, dom>>
    \/ ReceiveImage /\ UNCHANGED <<calc, dom>>
    \/ ImageResumes /\ UNCHANGED <<calc, dom>>
    \/ \E ok \in BOOLEAN : TransformResumes(ok) /\ UNCHANGED <<calc, dom>>

HandlerNext == HandlerStep \/ \E c \in Calls : HandlerCallStep(c)

HandlerSpec == Init /\ [][HandlerNext]_vars

\* ------------------------------------------- computations on parsed bodies
\* What a handler computes from a parsed upstream body, between two awaits.
\* An age is `now - createdAt`, a number of milliseconds, kept as whole days
\* and a rest of 0..DayMs-1 ms (the whole does not fit the model's integers).
Age(days, ms) == [days |-> days, ms |-> ms]

\* manga.attributes.createdAt: missing, or a date of some age.
CreatedAts ==
    {Omitted} \cup {Arg(Age(d, ms)) : d \in {-1, 0, NewDays - 1, NewDays, NewDays + 1},
                                      ms \in {0, DayMs - 1}}
\* The dates the entries of a listing are drawn from.
ListedCreatedAts == {Arg(Age(NewDays - 1, DayMs - 1)), Arg(Age(NewDays, 0))}

\* statistics[id]?.follows: missing, or a count.
FollowsArgs ==
    {Omitted} \cup {Arg(f) : f \in {0, HotFollows - 1, HotFollows, HotFollows + 1,
                                    SsFollows - 1, SsFollows, SsFollows + 1}}

\* (now - createdAt) / (1000 * 60 * 60 * 24) < limit.  A missing createdAt
\* gives an invalid date and NaN, which is below nothing (and /latest-manga
\* and /manga/:id skip the test then).
CreatedWithin(createdAt, limit) ==
    createdAt # Omitted /\ createdAt[1].days < limit

\* Array.prototype.slice(from, to), 0 <= from, 0 <= to.
Slice(seq, from, to) ==
    SubSeq(seq, from + 1, IF to < Len(seq) THEN to ELSE Len(seq))

\* Array.prototype.includes
Includes(seq, x) == \E n \in DOMAIN seq : seq[n] = x

\* Variant: the response is not cut to 10 entries.
NewMangaList_NoSlice(data) ==
    LET recent == SelectSeq(data, LAMBDA m : CreatedWithin(m.createdAt, NewDays))
        older  == SelectSeq(data, LAMBDA m : ~Includes(recent, m))
    IN IF Len(recent) < MinNewManga
       THEN recent \o Slice(older, 0, MinNewManga - Len(recent))
       ELSE recent

\* /new-manga: the entries of the last 30 days, filled up to 10 with older
\* ones; Promise.all keeps their number and order; the first 10 are sent.
NewMangaList(data) ==
    LET recent == SelectSeq(data, LAMBDA m : CreatedWithin(m.createdAt, NewDays))
        older  == SelectSeq(data, LAMBDA m : ~Includes(recent, m))
        filled == IF Len(recent) < MinNewManga
                  THEN recent \o Slice(older, 0, MinNewManga - Len(recent))
                  ELSE recent
    IN Slice(filled, 0, MinNewManga)

\* `x || 0` on a count that may be missing.
OrZero(arg) == IF arg = Omitted \/ arg[1] = 0 THEN 0 ELSE arg[1]

\* Variant: the thresholds are inclusive.
PopularityTag_Inclusive(followsArg, createdAt) ==
    LET follows == OrZero(followsArg)
        tag == IF follows >= SsFollows THEN "ss"
               ELSE IF follows >= HotFollows THEN "hot"
               ELSE ""
    IN IF CreatedWithin(createdAt, NewDays) THEN "new" ELSE tag

\* The popularity tag: "ss" or "hot" by follows, overwritten by "new".
PopularityTag(followsArg, createdAt) ==
    LET follows == OrZero(followsArg)
        tag == IF follows > SsFollows THEN "ss"
               ELSE IF follows > HotFollows THEN "hot"
               ELSE ""
    IN IF CreatedWithin(createdAt, NewDays) THEN "new" ELSE tag

\* The listing arrives at /new-manga: n entries in upstream order.
ComputeNewManga(data) ==
    /\ calc.op = "none"
    /\ calc' = [op |-> "new-manga", in |-> data,
                out |-> [n \in DOMAIN NewMangaList(data) |-> NewMangaList(data)[n].id]]
    /\ UNCHANGED <<calls, req, dom>>

\* The statistics of a manga arrive.
ComputeTag(followsArg, createdAt) ==
    /\ calc.op = "none"
    /\ calc' = [op |-> "tag", in |-> <<followsArg, createdAt>>,
                out |-> PopularityTag(followsArg, createdAt)]
    /\ UNCHANGED <<calls, req, dom>>

CalcNext ==
    \/ \E n \in 0..MaxListed :
          \E dates \in [1..n -> ListedCreatedAts] :
             ComputeNewManga([k \in 1..n |-> [id |-> k, createdAt |-> dates[k]]])
    \/ \E f \in FollowsArgs, d \in CreatedAts : ComputeTag(f, d)

CalcSpec == Init /\ [][CalcNext]_vars

\* -------------------------------------------------------- front-end page
\* Variant: the dark button leaves the theme class on body.
ClickDark_KeepsTheme ==
    /\ "d-none" \notin dom.dark
    /\ dom' = [dom EXCEPT !.light = @ \ {"d-none"},
                          !.dark  = @ \cup {"d-none"}]
    /\ UNCHANGED <<calls, req, calc>>

\* $('.light-btn') click; only a button that is shown can be clicked.
ClickLight ==
    /\ "d-none" \notin dom.light
    /\ dom' = [dom EXCEPT !.body  = @ \cup {"dark-theme"},
                          !.dark  = @ \ {"d-none"},
                          !.light = @ \cup {"d-none"}]
    /\ UNCHANGED <<calls, req, calc>>

\* $('.dark-btn') click
ClickDark ==
    /\ "d-none" \notin dom.dark
    /\ dom' = [dom EXCEPT !.body  = @ \ {"dark-theme"},
                          !.light = @ \ {"d-none"},
                          !.dark  = @ \cup {"d-none"}]
    /\ UNCHANGED <<calls, req, calc>>

\* Variant: an active item gets `inactive` added and keeps `active`.
GenreClick_KeepsActive(classList) ==
    IF "active" \in classList THEN classList \cup {"inactive"}
    ELSE IF "inactive" \in classList THEN classList \ {"inactive"}
    ELSE classList \cup {"active"}

\* The click listener of a genre filter item, on its classList.
GenreClick(classList) ==
    IF "active" \in classList THEN (classList \ {"active"}) \cup {"inactive"}
    ELSE IF "inactive" \in classList THEN classList \ {"inactive"}
    ELSE classList \cup {"active"}

\* A click on genre filter item g.
ClickGenre(g) ==
    /\ dom' = [dom EXCEPT !.genres[g] = GenreClick(@)]
    /\ UNCHANGED <<calls, req, calc>>

PageNext ==
    \/ ClickLight
    \/ ClickDark
    \/ \E g \in 1..GenreItems : ClickGenre(g)

PageSpec == Init /\ [][PageNext]_vars

\* ------------------------------------------------------------ properties
Range(seq) == {seq[n] : n \in DOMAIN seq}

\* The attempts and the elapsed backoff waits of a log, notices left out.
AttemptsAndWaits(log) == SelectSeq(log, LAMBDA e : e.ev # "notice")

\* k attempts with one wait of BackoffMs between every two of them.
Alternation(k) ==
    [n \in 1..(2 * k - 1) |->
        IF n % 2 = 1 THEN Event("attempt", (n + 1) \div 2, 0)
                     ELSE Event("wait", BackoffMs, 0)]

Failing == {"AttemptFailed", "Backoff", "Failed"}

\* C1: with retries >= 1, a call whose attempts all fail raises after exactly
\* `retries` attempts: it never issues more than `retries` attempts, it does
\* not raise before the attempt number `retries` has failed, and once that
\* attempt has failed it neither waits for another try nor returns.
C1_RaisesAfterExactlyMaxRetries ==
    \A c \in Calls :
        LET s == calls[c]
        IN (s.pc # "Idle" /\ s.retries >= 1) =>
              /\ s.attempts <= s.retries
              /\ s.pc = "Failed" => (s.attempts = s.retries /\ s.raised # NoError)
              /\ s.pc = "Backoff" => s.attempts < s.retries
              /\ s.pc # "ReturnedUndefined"

C1_Witness ==
    \E c \in Calls :
        /\ calls[c].pc = "Failed"
        /\ calls[c].retries = DefaultRetries
        /\ calls[c].attempts = DefaultRetries
        /\ calls[c].raised.kind = "AbortError"

\* C2: a call that succeeds on attempt k has made exactly k attempts,
\* k <= retries, with exactly one elapsed backoff wait of 2000 ms between
\* every two consecutive attempts, and returns the response of attempt k.
C2_KAttemptsWithBackoffBetween ==
    \A c \in Calls :
        LET s == calls[c]
        IN s.pc = "Succeeded" =>
              /\ s.attempts >= 1 /\ s.attempts <= s.retries
              /\ AttemptsAndWaits(s.log) = Alternation(s.attempts)
              /\ s.result = s.response
              /\ s.result.attempt = s.attempts
              /\ Ok(s.result.status)

C2_Witness ==
    \E c \in Calls :
        /\ calls[c].pc = "Succeeded"
        /\ calls[c].attempts = 3
        /\ Len(SelectSeq(calls[c].log, LAMBDA e : e.ev = "wait")) = 2

\* C3: when the transport answers the first attempt with a success status,
\* the call has succeeded with that one attempt, no backoff wait happened or
\* is pending, and the value returned is the response received.
C3_FirstAttemptSuccess ==
    \A c \in Calls :
        LET s == calls[c]
        IN (s.response.attempt = 1 /\ Ok(s.response.status)) =>
              /\ s.pc = "Succeeded"
              /\ s.attempts = 1
              /\ s.log = <<Event("attempt", 1, 0)>>
              /\ s.backoffId = NoTimer
              /\ s.result = s.response

C3_Witness ==
    \E c \in Calls :
        /\ calls[c].pc = "Succeeded"
        /\ calls[c].response = Response(1, 204)
        /\ calls[c].result = Response(1, 204)

\* C4: (the claim) no call completes normally without a response: a finished
\* call has either returned a response or raised a failure.
C4_NeverReturnsUndefined ==
    \A c \in Calls : calls[c].pc # "ReturnedUndefined"

\* C5: (the claim) the timeout timer of an attempt runs for the duration the
\* caller asked for.
C5_CallerTimeoutBoundsAttempt ==
    \A c \in Calls :
        LET s == calls[c]
        IN (s.pc = "Attempting" /\ s.wantTimeout # Omitted) =>
              s.timeoutId = Timer(s.wantTimeout[1])

\* C6: an attempt that ended by timeout had abort called on it, counts as a
\* failed attempt, and left no transport operation in flight; no transport
\* operation is in flight outside an attempt.
C6_TimeoutAbortsTransport ==
    \A c \in Calls :
        LET s == calls[c]
        IN /\ s.error.kind = "AbortError" =>
                 /\ s.error.attempt \in Range(s.aborted)
                 /\ s.error.attempt = s.attempts
                 /\ s.pc \in Failing
                 /\ s.inflight = {}
           /\ s.pc # "Attempting" => s.inflight = {}

C6_Witness ==
    \E c \in Calls :
        /\ calls[c].pc = "AttemptFailed"
        /\ calls[c].error = AbortError(1)
        /\ calls[c].aborted = <<1>>

\* C7: the failure raised when the attempts are exhausted is the failure of
\* the last attempt; a status failure carries the status of the last response.
C7_RaisesLastFailure ==
    \A c \in Calls :
        LET s == calls[c]
        IN s.pc = "Failed" =>
              /\ s.raised = s.error
              /\ s.raised.attempt = s.retries
              /\ s.raised.attempt = s.attempts
              /\ s.raised.kind = "HTTPError" =>
                    (s.response.attempt = s.attempts /\ s.raised.status = s.response.status)

C7_Witness ==
    \E c \in Calls :
        /\ calls[c].pc = "Failed"
        /\ calls[c].retries = 3
        /\ calls[c].raised = HttpError(Response(3, 500))

\* C8: the step after a failed attempt depends on the attempt index and the
\* retry count only, not on the cause: terminal failure on the last
\* iteration, notice and backoff otherwise, for a timeout, a transport error
\* and a non-success status alike.
C8_UniformFailureHandling ==
    [][\A c \in Calls :
          LET s == calls[c]
              t == calls'[c]
          IN (s.pc = "AttemptFailed" /\ t # s) =>
                /\ s.error.kind \in {"AbortError", "FetchError", "HTTPError"}
                /\ t.pc = IF s.i = s.retries - 1 THEN "Failed" ELSE "Backoff"
                /\ t.pc = "Backoff" => t.backoffId = Timer(BackoffMs)]_vars

C8_Witness ==
    \E c \in Calls :
        /\ calls[c].pc = "Backoff"
        /\ calls[c].error = HttpError(Response(1, 404))

\* C9: a success status ends the call in the same step, and a call that has
\* succeeded does nothing more: no attempt, no wait, no notice, no timer.
C9_SuccessIsImmediateAndFinal ==
    [][\A c \in Calls :
          LET s == calls[c]
              t == calls'[c]
          IN /\ (t.response # s.response /\ Ok(t.response.status)) =>
                   (t.pc = "Succeeded" /\ t.log = s.log /\ t.result = t.response)
             /\ t.pc = "Succeeded" =>
                   (t.timeoutId = NoTimer /\ t.backoffId = NoTimer /\ t.inflight = {})
             /\ s.pc = "Succeeded" => t = s]_vars

C9_Witness ==
    \E c \in Calls :
        /\ calls[c].pc = "Succeeded"
        /\ calls[c].result.attempt = 2

\* C10: (the claim) every call that was started eventually reaches Succeeded
\* or Failed, given that timers fire.
C10_EventuallySucceededOrFailed ==
    \A c \in Solo :
        (calls[c].pc # "Idle") ~> (calls[c].pc \in {"Succeeded", "Failed"})

\* C11: (the claim) the state of a call changes only along Idle ->
\* Attempting -> {Succeeded, AttemptFailed}, AttemptFailed -> (backoff) ->
\* Attempting while attempts remain, AttemptFailed -> Failed when none remain;
\* Succeeded and Failed are left by no step.
C11_StateMachine ==
    [][\A c \in Calls :
          LET s == calls[c]
              t == calls'[c]
          IN /\ t.pc # s.pc =>
                  \/ s.pc = "Idle" /\ t.pc = "Attempting"
                  \/ s.pc = "Attempting" /\ t.pc \in {"Succeeded", "AttemptFailed"}
                  \/ s.pc = "AttemptFailed" /\ t.pc = "Backoff" /\ s.attempts < s.retries
                  \/ s.pc = "AttemptFailed" /\ t.pc = "Failed" /\ s.attempts >= s.retries
                  \/ s.pc = "Backoff" /\ t.pc = "Attempting"
             /\ s.pc \in {"Succeeded", "Failed"} => t = s]_vars

\* C13: the timeout timer of an attempt is armed when the attempt is issued,
\* with the full timeout, and none is pending between attempts: while a call
\* waits for its backoff (or has just failed an attempt) it has no timeout
\* timer, so no earlier attempt and no backoff wait uses up a later timeout.
C13_FreshTimeoutPerAttempt ==
    [][\A c \in Calls :
          LET s == calls[c]
              t == calls'[c]
          IN /\ t.pc \in {"AttemptFailed", "Backoff"} => t.timeoutId = NoTimer
             /\ t.pc = "Attempting" => t.timeoutId = Timer(DefaultTimeout)
             /\ (t.timeoutId # NoTimer /\ s.timeoutId = NoTimer) =>
                    (t.attempts = s.attempts + 1 /\ t.pc = "Attempting")]_vars

C13_Witness ==
    \E c \in Calls :
        /\ calls[c].pc = "Attempting"
        /\ calls[c].attempts = 3
        /\ calls[c].seen = <<Silent, Silent>>
        /\ calls[c].timeoutId = Timer(DefaultTimeout)

Notices(log) == SelectSeq(log, LAMBDA e : e.ev = "notice")

\* C14: a call that has made a >= 1 attempts has emitted a-1 notices (a while
\* it waits for the backoff before attempt a+1); the j-th notice carries j and
\* `retries`; the log starts with an attempt, and a failed call's log ends with
\* the attempt that failed last.
C14_OneNoticeBeforeEachRetry ==
    \A c \in Calls :
        LET s == calls[c]
            n == Notices(s.log)
        IN s.attempts >= 1 =>
              /\ Len(n) = IF s.pc = "Backoff" THEN s.attempts ELSE s.attempts - 1
              /\ \A j \in DOMAIN n : n[j] = Event("notice", j, s.retries)
              /\ s.log[1].ev = "attempt"
              /\ \A k \in 1..(Len(s.log) - 1) :
                    s.log[k].ev = "notice" => s.log[k + 1].ev # "notice"
              /\ s.pc = "Failed" => s.log[Len(s.log)].ev = "attempt"

C14_Witness ==
    \E c \in Calls :
        /\ calls[c].pc = "Failed"
        /\ calls[c].attempts = 3
        /\ Notices(calls[c].log) = <<Event("notice", 1, 3), Event("notice", 2, 3)>>

\* C16: every attempt hands the transport the address of the call and the
\* caller's headers and body, with nothing but the attempt's own signal added,
\* and the caller's options object is never written.
C16_RequestPassedThrough ==
    \A c \in Calls :
        LET s == calls[c]
            given == Default(s.args.options, EmptyOptions)
        IN /\ Len(s.sent) = s.attempts
           /\ s.options = given
           /\ \A n \in DOMAIN s.sent :
                 /\ s.sent[n].url = s.args.url
                 /\ s.sent[n].init.headers = given.headers
                 /\ s.sent[n].init.body = given.body
                 /\ s.sent[n].init.signal = n

C16_Witness ==
    \E c \in Calls :
        /\ calls[c].attempts = 3
        /\ calls[c].args.options = Arg(Options("h2", "b1"))
        /\ calls[c].sent[3] = [url |-> "u2", init |-> [headers |-> "h2", body |-> "b1", signal |-> 3]]

\* C17: a call made with an address (and options) only arms every timeout
\* timer with 10000 ms and makes at most 3 attempts.
C17_Defaults ==
    \A c \in Calls :
        LET s == calls[c]
        IN (s.pc # "Idle" /\ s.args.retries = Omitted /\ s.args.timeout = Omitted) =>
              /\ s.attempts <= 3
              /\ s.timeoutId \in {NoTimer, Timer(10000)}
              /\ s.pc = "Attempting" => s.timeoutId = Timer(10000)

C17_Witness ==
    \E c \in Calls :
        /\ calls[c].args.retries = Omitted
        /\ calls[c].args.timeout = Omitted
        /\ calls[c].pc = "Failed"
        /\ calls[c].attempts = 3

Terminal == {"Succeeded", "Failed", "ReturnedUndefined"}

\* An attempt that ended this way failed.
FailedAttempt(o) == o.how # "answered" \/ ~Ok(o.status)

\* One sequence is a prefix of the other: both were read off one transport
\* that answers attempt n the same way for every caller.
SameTransport(a, b) ==
    \A n \in DOMAIN a \cap DOMAIN b : a[n] = b[n]

\* C12: concurrent calls are isolated. A step of one call changes no other
\* call; abort has run exactly on the call's own attempts that stayed silent;
\* and how a call ends and after how many attempts follows from its own retry
\* count and its own transport results: it succeeds on its first attempt that
\* was answered with a success status, and fails after `retries` failed ones.
C12_CallsIsolated ==
    [][\A c \in Calls :
          LET s == calls[c]
              t == calls'[c]
          IN /\ t # s => \A d \in Calls \ {c} : calls'[d] = calls[d]
             /\ Range(t.aborted) = {n \in DOMAIN t.seen : t.seen[n] = Silent}
             /\ t.inflight \subseteq {t.attempts}
             /\ t.pc \in {"Succeeded", "Failed"} =>
                   /\ t.attempts = Len(t.seen)
                   /\ \A n \in 1..(Len(t.seen) - 1) : FailedAttempt(t.seen[n])
                   /\ t.pc = "Succeeded" <=> ~FailedAttempt(t.seen[Len(t.seen)])
                   /\ t.pc = "Failed" => Len(t.seen) = t.retries]_vars

C12_Witness ==
    /\ calls[1].pc = "Attempting" /\ calls[1].attempts = 1
    /\ calls[2].pc = "Backoff" /\ calls[2].aborted = <<1>>

\* C15: two finished calls made with the same arguments whose attempts were
\* answered by the same deterministic transport ended the same way and after
\* the same number of attempts.
C15_SameArgumentsSameOutcome ==
    \A c \in Calls, d \in Calls :
        LET s == calls[c]
            t == calls[d]
        IN (/\ s.pc \in Terminal /\ t.pc \in Terminal
            /\ s.args = t.args
            /\ SameTransport(s.seen, t.seen)) =>
              (s.pc = t.pc /\ s.attempts = t.attempts)

C15_Witness ==
    /\ calls[1].pc = "Failed" /\ calls[2].pc = "Failed"
    /\ calls[1].args = calls[2].args
    /\ calls[1].seen = <<Answered(500), Silent>>
    /\ calls[2].seen = <<Answered(500), Silent>>

\* The responses sent for the request.
Sent == Range(req.res)

Running == {"Attempting", "AttemptFailed", "Backoff"}

\* C19: neither the step that sends the response nor any step after it stops
\* or restarts a call that is still running: the call stays as it is or goes
\* on along its own attempts, notices and waits, and it can always go on.
C19_AbandonedCallsKeepRunning ==
    /\ [][\A c \in Calls :
            (req'.res # <<>> /\ calls[c].pc \in Running) =>
               /\ calls'[c].pc \in Running \cup Terminal
               /\ calls'[c].args = calls[c].args
               /\ calls'[c].attempts \in {calls[c].attempts, calls[c].attempts + 1}
               /\ Len(calls'[c].log) >= Len(calls[c].log)
               /\ SubSeq(calls'[c].log, 1, Len(calls[c].log)) = calls[c].log]_vars
    /\ [](\A c \in Calls :
            (req.res # <<>> /\ calls[c].pc \in Running) =>
               ENABLED (HandlerCallStep(c)))

\* A sibling of the callback whose failure was answered with 500 is retrying
\* a fetch that it started after the response was sent.
C19_Witness ==
    /\ req.route = "/latest-manga"
    /\ req.res = <<[status |-> 500, body |-> "error", partial |-> TRUE]>>
    /\ req.items[1].st = "rejected"
    /\ req.items[2].st = "run"
    /\ req.items[2].stage > req.atSend[2]
    /\ calls[2].pc = "Attempting" /\ calls[2].attempts = 2

\* C20: in /manga/:id a manga lookup that failed, whatever the upstream
\* status, failed after 3 attempts and is answered with the 500 of the outer
\* catch; a 404 is sent only after the lookup succeeded with a body that has
\* no data field.
C20_Upstream404IsRetriedThen500 ==
    req.route \in DetailRoutes =>
       /\ req.first.pc = "Failed" =>
             /\ req.first.attempts = DefaultRetries
             /\ req.res = <<[status |-> 500, body |-> "error", partial |-> TRUE]>>
       /\ \A r \in Sent :
             r.status = 404 =>
                /\ r.body = "not found"
                /\ req.first.pc = "Succeeded" /\ Ok(req.first.status)
                /\ req.data = "no"

C20_Witness ==
    /\ req.route = Details000
    /\ req.first = [pc |-> "Failed", attempts |-> 3, status |-> 404]
    /\ calls[1].seen = <<Answered(404), Answered(404), Answered(404)>>
    /\ req.res = <<[status |-> 500, body |-> "error", partial |-> TRUE]>>

\* The step starts the callbacks of a list handler.
PipelinesStart == req.hpc = "Listing" /\ req'.hpc = "Items"

\* The step issues the next fetch of the running callback k.
NextFetchIssued(k) ==
    /\ req.route \in ListRoutes
    /\ req.items[k].st = "run" /\ req'.items[k].st = "run"
    /\ req'.items[k].stage # req.items[k].stage

\* The callbacks start together, each with its first fetch in flight, and
\* the fetches of one callback follow the source order, one at a time.
PipelinesConcurrentAndOrdered ==
    /\ PipelinesStart =>
          /\ calls[1].pc = "Succeeded"
          /\ \A c \in Calls :
                req'.items[c].st = "run" =>
                   /\ calls'[c].pc = "Attempting" /\ calls'[c].inflight = {1}
                   /\ calls'[c].url = ItemStages(req.route)[req'.items[c].stage]
    /\ \A k \in Calls :
          NextFetchIssued(k) =>
             /\ calls[k].pc \in {"Succeeded", "Failed"}
             /\ req'.items[k].stage > req.items[k].stage
             /\ calls'[k].pc = "Attempting" /\ calls'[k].inflight = {1}
             /\ calls'[k].url = ItemStages(req.route)[req'.items[k].stage]

\* No callback runs unless the listing fetch succeeded.
PipelinesAfterListing ==
    \A c \in Calls :
        (req.route \in ListRoutes /\ req.items[c].st # "off") => req.data = "yes"

C22_TransformIsNotRetried ==
    /\ [](req.route = ProxyRoute =>
            /\ Len(req.res) <= 1
            /\ req.transform = "failed" =>
                  /\ req.res = <<[status |-> 500, body |-> "error", partial |-> FALSE]>>
                  /\ calls[1].pc = "Succeeded" /\ calls[1].inflight = {}
                  /\ calls[1].attempts = Len(calls[1].seen)
            /\ req.transform = "ok" =>
                  req.res = <<[status |-> 200, body |-> "image/jpeg", partial |-> FALSE]>>)
    /\ [][req'.transform # "none" => calls' = calls]_vars

C22_Witness ==
    /\ req.route = ProxyRoute
    /\ req.transform = "failed"
    /\ calls[1].seen = <<Answered(404), Answered(200)>>
    /\ calls[1].sent[2].init.headers = "h1"
    /\ req.res = <<[status |-> 500, body |-> "error", partial |-> FALSE]>>

\* C23: every upstream request of a handler goes through fetchWithRetry: an
\* attempt in flight has its timeout timer armed, a response a handler gets
\* hold of has a success status, and an error a handler gets hold of was
\* raised after the attempts were used up.
C23_EveryFetchGoesThroughRetry ==
    \A c \in Calls :
        /\ calls[c].inflight # {} => calls[c].timeoutId # NoTimer
        /\ calls[c].result # NoResponse => Ok(calls[c].result.status)
        /\ calls[c].raised # NoError => calls[c].attempts = DefaultRetries

\* The elapsed backoff waits of a log.
Waits(log) == SelectSeq(log, LAMBDA e : e.ev = "wait")

\* C24: a call that has raised made retries - 1 backoff waits, none after its
\* last attempt and none pending; it raises in the very step that handles the
\* failure of attempt number `retries`, and nothing is waited for in it.
C24_NoBackoffAfterLastAttempt ==
    /\ [](\A c \in Calls :
            LET s == calls[c]
            IN s.pc = "Failed" =>
                  /\ Len(Waits(s.log)) = s.retries - 1
                  /\ s.log[Len(s.log)] = Event("attempt", s.retries, 0)
                  /\ s.backoffId = NoTimer)
    /\ [][\A c \in Calls :
            (calls'[c].pc = "Failed" /\ calls[c].pc # "Failed") =>
               /\ calls[c].pc = "AttemptFailed"
               /\ calls[c].attempts = calls[c].retries
               /\ calls'[c].log = calls[c].log
               /\ calls'[c].backoffId = NoTimer]_vars

C24_Witness ==
    /\ calls[1].pc = "Failed"
    /\ calls[1].retries = 1
    /\ calls[1].log = <<Event("attempt", 1, 0)>>
    /\ calls[1].raised = HttpError(Response(1, 500))

\* C25: a timeout timer is pending only while its attempt is in flight; abort
\* runs only on an attempt in flight whose timer is pending, spends the
\* timer, and runs at most once per attempt; a call that has ended has no
\* timeout and no backoff timer pending.
C25_TimersClearedOnEveryExit ==
    /\ [](\A c \in Calls :
            LET s == calls[c]
            IN /\ s.timeoutId # NoTimer =>
                     (s.pc = "Attempting" /\ s.inflight = {s.attempts})
               /\ s.pc \in Terminal =>
                     (s.timeoutId = NoTimer /\ s.backoffId = NoTimer)
               /\ \A m \in DOMAIN s.aborted, n \in DOMAIN s.aborted :
                     m < n => s.aborted[m] < s.aborted[n])
    /\ [][\A c \in Calls :
            calls'[c].aborted # calls[c].aborted =>
               /\ calls[c].pc = "Attempting"
               /\ calls[c].attempts \in calls[c].inflight
               /\ calls[c].timeoutId # NoTimer
               /\ calls'[c].aborted = Append(calls[c].aborted, calls[c].attempts)
               /\ calls'[c].timeoutId = NoTimer]_vars

C25_Witness ==
    /\ calls[1].pc = "Succeeded"
    /\ calls[1].aborted = <<1>>
    /\ calls[1].seen = <<Silent, Answered(200)>>
    /\ calls[1].timeoutId = NoTimer /\ calls[1].backoffId = NoTimer

\* C26: a request to /manga/:id of part_002 for a manga that exists, none of
\* whose fetches failed, is answered with the details payload.
C26_Part002DetailsSucceed ==
    (/\ req.route = Details002
     /\ req.hpc = "Done"
     /\ req.data = "yes"
     /\ ~req.failed) =>
        req.res = <<[status |-> 200, body |-> "details", partial |-> FALSE]>>

\* Entry number id of the listing was created less than 30 days ago.
ListedRecent(id) ==
    calc.in[id].createdAt # Omitted /\ calc.in[id].createdAt[1].days < 30

\* C27: for a listing of N entries /new-manga answers with min(10, N) of
\* them, none twice: the recent ones first, then older ones, each group in
\* upstream order and from its start, older ones only when every recent one
\* is in.
C27_NewMangaListShape ==
    calc.op = "new-manga" =>
       LET N == Len(calc.in)
           out == calc.out
       IN /\ Len(out) = IF N < 10 THEN N ELSE 10
          /\ Range(out) \subseteq 1..N
          /\ \A m \in DOMAIN out, n \in DOMAIN out :
                m < n =>
                   /\ out[m] # out[n]
                   /\ ListedRecent(out[m]) \/ ~ListedRecent(out[n])
                   /\ ListedRecent(out[m]) = ListedRecent(out[n]) => out[m] < out[n]
          /\ \A id \in Range(out), before \in 1..N :
                (before < id /\ ListedRecent(before) = ListedRecent(id)) =>
                   before \in Range(out)
          /\ (\E id \in Range(out) : ~ListedRecent(id)) =>
                \A id \in 1..N : ListedRecent(id) => id \in Range(out)

\* Twelve listed, the first one old, the next nine recent: the old one comes
\* last, the other old ones are left out.
C27_Witness ==
    /\ calc.op = "new-manga"
    /\ Len(calc.in) = 12
    /\ calc.out = <<2, 3, 4, 5, 6, 7, 8, 9, 10, 1>>

\* C28: the tag of a manga created less than 30 days ago is "new" whatever
\* its follows; of any other, "ss" iff follows > 50000, "hot" iff
\* 10000 < follows <= 50000, and "" iff follows <= 10000.
C28_PopularityTagThresholds ==
    calc.op = "tag" =>
       LET follows == IF calc.in[1] = Omitted THEN 0 ELSE calc.in[1][1]
           createdAt == calc.in[2]
           new == createdAt # Omitted /\ createdAt[1].days < 30
       IN /\ new => calc.out = "new"
          /\ ~new =>
                /\ calc.out = "ss" <=> follows > 50000
                /\ calc.out = "hot" <=> (follows > 10000 /\ follows <= 50000)
                /\ calc.out = "" <=> follows <= 10000

C28_Witness ==
    /\ calc.op = "tag"
    /\ calc.in = <<Arg(50000), Arg(Age(30, 0))>>
    /\ calc.out = "hot"

\* The class lists of a genre filter item in its three states.
Neutral == {"list_item"}
Active == {"list_item", "active"}
Inactive == {"list_item", "inactive"}

\* C29: no genre filter item ever has both `active` and `inactive`; a click
\* takes the item clicked from neutral to active, from active to inactive and
\* from inactive to neutral (so three clicks bring it back) and leaves every
\* other item as it was.
C29_GenreFilterCycle ==
    /\ [](\A g \in 1..GenreItems : dom.genres[g] \in {Neutral, Active, Inactive})
    /\ [][\A g \in 1..GenreItems :
            dom'.genres[g] # dom.genres[g] =>
               /\ <<dom.genres[g], dom'.genres[g]>> \in
                     {<<Neutral, Active>>, <<Active, Inactive>>, <<Inactive, Neutral>>}
               /\ \A h \in 1..GenreItems : h # g => dom'.genres[h] = dom.genres[h]]_vars

C29_Witness ==
    /\ dom.genres[1] = Inactive
    /\ dom.genres[2] = Active
    /\ dom.genres[3] = Neutral

\* C30: exactly one of the two theme buttons is hidden, and body has
\* `dark-theme` iff the hidden one is the light button.
C30_ThemeToggle ==
    /\ ("d-none" \in dom.light) # ("d-none" \in dom.dark)
    /\ ("dark-theme" \in dom.body) <=> ("d-none" \in dom.light)

\* The dark theme is on after a click on the light button, with a genre item
\* marked on the same page.
C30_Witness ==
    /\ "dark-theme" \in dom.body
    /\ "d-none" \in dom.light
    /\ "d-none" \notin dom.dark
    /\ dom.genres[1] = Active

====
